---- MODULE Spec2Model ----
(***************************************************************************)
(* scripts/extract-opcodes.py: the opcode table extractor.                 *)
(*                                                                         *)
(* The script opens the opcode header, reads it whole, closes it, and then *)
(* scans the text line by line.  Each stripped line is matched against one *)
(* regular expression; a matching line prints one tab-separated record and *)
(* advances the counter idx.                                               *)
(*                                                                         *)
(* Text is modelled character by character: a string is a sequence of      *)
(* one-character strings, so stripping, splitting, matching and number     *)
(* formatting are computed the way the interpreter computes them.          *)
(***************************************************************************)
EXTENDS Integers, Sequences, FiniteSets, TLC

VARIABLES
    file,    \* the content of the header on disk (environment)
    avail,   \* the environment: "ok", "noopen" (open raises), "noread" (read raises)
    pc,      \* position of the script
    fopen,   \* whether the file object f is open
    err,     \* an exception is propagating out of the with-block
    lines,   \* the script's variable `lines`: the text returned by f.read()
    todo,    \* the list lines.split("\n") the for-loop iterates over
    pos,     \* the for-loop's position in that list (1-based)
    idx,     \* the script's counter idx
    out      \* the records printed on standard output, in order

vars == <<file, avail, pc, fopen, err, lines, todo, pos, idx, out>>

-----------------------------------------------------------------------------
(* Bounds *)

\* Longest input, in lines, of the general specification.
MaxLines == 2

\* Longest run of matching lines of the long-table specification.
MaxLong == 300

-----------------------------------------------------------------------------
(* Character classes *)

Upper ==
    {"A","B","C","D","E","F","G","H","I","J","K","L","M",
     "N","O","P","Q","R","S","T","U","V","W","X","Y","Z"}

Lower ==
    {"a","b","c","d","e","f","g","h","i","j","k","l","m",
     "n","o","p","q","r","s","t","u","v","w","x","y","z"}

\* \d
Digit == {"0","1","2","3","4","5","6","7","8","9"}

\* \w
Word == Upper \cup Lower \cup Digit \cup {"_"}

\* \s, and the characters str.strip() removes
Space == {" ", "\t", "\n", "\r", "\f"}

-----------------------------------------------------------------------------
(* String helpers *)

\* F applied to the value of e: e is evaluated once, whatever the number of
\* times F uses its argument.  An interpreter computes each intermediate
\* result once; this keeps the model doing the same.
Let(e, F(_)) ==
    CHOOSE r \in {F(x) : x \in {e}} : TRUE

RECURSIVE Span(_, _, _)
\* The first position j >= i of s that does not hold a character of class C
\* (Len(s) + 1 when there is none): where a greedy C* started at i stops.
Span(s, i, C) ==
    IF i <= Len(s) /\ s[i] \in C THEN Span(s, i + 1, C) ELSE i

RECURSIVE SpanBack(_, _, _)
\* The last position j <= i of s that does not hold a character of class C
\* (0 when there is none).
SpanBack(s, i, C) ==
    IF i >= 1 /\ s[i] \in C THEN SpanBack(s, i - 1, C) ELSE i

RECURSIVE Find(_, _, _)
\* The first position j >= i of s holding character c (Len(s) + 1 when none).
Find(s, i, c) ==
    IF i <= Len(s) /\ s[i] # c THEN Find(s, i + 1, c) ELSE i

StartsWith(s, t) ==
    Len(s) >= Len(t) /\ SubSeq(s, 1, Len(t)) = t

\* line.strip()
Strip(s) ==
    SubSeq(s, Span(s, 1, Space), SpanBack(s, Len(s), Space))

RECURSIVE Split(_)
\* lines.split("\n"): the pieces of s between its newlines, in order.  The
\* text is cut at the newline nearest its middle and each half split in turn,
\* which yields the pieces left to right.
Split(s) ==
    LET Dist(v, i) == IF 2 * i >= Len(v) THEN 2 * i - Len(v) ELSE Len(v) - 2 * i
        Nearest(v, nl) ==
            CHOOSE i \in nl :
                \A j \in nl : Dist(v, i) < Dist(v, j) \/ (Dist(v, i) = Dist(v, j) /\ i <= j)
        Cut(v, k) == Split(SubSeq(v, 1, k - 1)) \o Split(SubSeq(v, k + 1, Len(v)))
        Pieces(v, nl) == IF nl = {} THEN <<v>> ELSE Let(Nearest(v, nl), LAMBDA k : Cut(v, k))
    IN  Let(s, LAMBDA v : Let({i \in 1..Len(v) : v[i] = "\n"}, LAMBDA nl : Pieces(v, nl)))

-----------------------------------------------------------------------------
(* The regular expression of line 10, matched at the start of the line     *)
(* (re.match).  Every position below is the index of the next character to *)
(* read, and 0 stands for "no match".  The character classes that follow   *)
(* one another in the pattern are disjoint, so the greedy scan never has   *)
(* to give characters back.                                                *)

T_DEF == <<"D","E","F">>

T_def == <<"d","e","f">>

\* A token that accepts the uppercase form only.
TokUpperOnly(s) ==
    IF StartsWith(s, T_DEF) THEN 4 ELSE 0

\* (?:DEF|def)
Tok(s) ==
    IF StartsWith(s, T_DEF) \/ StartsWith(s, T_def) THEN 4 ELSE 0

\* \s*
Ws(s, i) ==
    Let(i, LAMBDA j : IF j = 0 THEN 0 ELSE Span(s, j, Space))

\* one literal character c
Ch(s, i, c) ==
    Let(i, LAMBDA j : IF j # 0 /\ j <= Len(s) /\ s[j] = c THEN j + 1 ELSE 0)

\* an optional literal character c
Opt(s, i, c) ==
    Let(i, LAMBDA j : IF j # 0 /\ j <= Len(s) /\ s[j] = c THEN j + 1 ELSE j)

\* one or more characters of class C
Plus(s, i, C) ==
    Let(i, LAMBDA j : IF j # 0 /\ Span(s, j, C) > j THEN Span(s, j, C) ELSE 0)

\* \s*,\s*
Comma(s, i) ==
    Ws(s, Ch(s, Ws(s, i), ","))

\* A size group that takes a sign, like the pop and push groups.
SizeGroupSigned(s, i) ==
    Plus(s, Opt(s, i, "-"), Digit)

\* group 2, (\d+)
SizeGroup(s, i) ==
    Plus(s, i, Digit)

\* A count group that also takes letters after the digits.
CountGroupLoose(s, i) ==
    Plus(s, Opt(s, i, "-"), Word)

\* groups 3 and 4, (-?\d+)
CountGroup(s, i) ==
    Plus(s, Opt(s, i, "-"), Digit)

\* The result of a failed match (None).
NoMatch == [ok |-> FALSE, groups |-> <<>>, end |-> 0]

\* re.match(pattern, s): ok, the five groups, and the position of the last
\* character the match consumed.
MatchAt(s, t) ==
    LET b1 == Ws(s, Ch(s, Ws(s, t), "("))
        e1 == Plus(s, b1, Word)
        b2 == Comma(s, e1)
        e2 == SizeGroup(s, b2)
        b3 == Comma(s, e2)
        e3 == CountGroup(s, b3)
        b4 == Comma(s, e3)
        e4 == CountGroup(s, b4)
        b5 == Comma(s, e4)
        e5 == Plus(s, b5, Word)
    IN  IF e5 = 0
        THEN NoMatch
        ELSE [ok     |-> TRUE,
              groups |-> <<SubSeq(s, b1, e1 - 1), SubSeq(s, b2, e2 - 1),
                           SubSeq(s, b3, e3 - 1), SubSeq(s, b4, e4 - 1),
                           SubSeq(s, b5, e5 - 1)>>,
              end    |-> e5 - 1]

\* A search rather than an anchored match: the token may start anywhere.
ReSearch(s) ==
    LET hits == {k \in 1..Len(s) :
                    MatchAt(SubSeq(s, k, Len(s)), Tok(SubSeq(s, k, Len(s)))).ok}
    IN  IF hits = {}
        THEN NoMatch
        ELSE LET k == CHOOSE h \in hits : \A g \in hits : h <= g
             IN  MatchAt(SubSeq(s, k, Len(s)), Tok(SubSeq(s, k, Len(s))))

\* re.match(r'(?:DEF|def)\s*\(\s*(\w+)\s*,\s*(\d+)\s*,\s*(-?\d+)\s*,\s*(-?\d+)\s*,\s*(\w+)', line)
ReMatch(s) ==
    Let(s, LAMBDA v : MatchAt(v, Tok(v)))

-----------------------------------------------------------------------------
(* The f-string of line 13 *)

DigitChars ==
    <<"0","1","2","3","4","5","6","7","8","9","A","B","C","D","E","F">>

RECURSIVE Dec(_)
\* {idx}: the decimal digits of n
Dec(n) ==
    IF n < 10 THEN <<DigitChars[n + 1]>>
    ELSE Dec(n \div 10) \o <<DigitChars[(n % 10) + 1]>>

RECURSIVE HexDigits(_)
\* the uppercase hexadecimal digits of n, without padding
HexDigits(n) ==
    IF n < 16 THEN <<DigitChars[n + 1]>>
    ELSE HexDigits(n \div 16) \o <<DigitChars[(n % 16) + 1]>>

\* A rendering that keeps the low byte only.
Hex02Wrap(n) ==
    IF n % 256 < 16 THEN <<"0">> \o HexDigits(n % 256) ELSE HexDigits(n % 256)

\* {idx:02X}: uppercase hexadecimal, zero-padded to a minimum width of 2
Hex02(n) ==
    IF n < 16 THEN <<"0">> \o HexDigits(n) ELSE HexDigits(n)

TAB == <<"\t">>

\* A record that tags the name only when it does not carry the tag already.
FormatRecordTagOnce(i, g) ==
    Dec(i) \o TAB \o <<"0","x">> \o Hex02(i)
      \o TAB \o (IF StartsWith(g[1], <<"O","P","_">>) THEN <<>> ELSE <<"O","P","_">>) \o g[1]
      \o TAB \o <<"s","i","z","e","=">> \o g[2]
      \o TAB \o <<"p","o","p","=">> \o g[3]
      \o TAB \o <<"p","u","s","h","=">> \o g[4]
      \o TAB \o <<"f","m","t","=">> \o g[5]

\* f"{idx}\t0x{idx:02X}\tOP_{name}\tsize={size}\tpop={npop}\tpush={npush}\tfmt={fmt}"
FormatRecord(i, g) ==
    Dec(i) \o TAB \o <<"0","x">> \o Hex02(i)
      \o TAB \o <<"O","P","_">> \o g[1]
      \o TAB \o <<"s","i","z","e","=">> \o g[2]
      \o TAB \o <<"p","o","p","=">> \o g[3]
      \o TAB \o <<"p","u","s","h","=">> \o g[4]
      \o TAB \o <<"f","m","t","=">> \o g[5]

-----------------------------------------------------------------------------
(* The inputs: header texts built from sample lines *)

\* an empty line
LineEmpty ==
    <<>>

\* // DEF(foo, 1, 0, 0, none)
LineComment ==
    <<"/","/"," ","D","E","F","(","f","o","o",","," ","1",","," ","0",","," ","0",","," ","n","o","n","e",")">>

\* DEF(push_i32, 5, 0, 1, i32)
LineScenarioA ==
    <<"D","E","F","(","p","u","s","h","_","i","3","2",","," ","5",","," ","0",","," ","1",","," ","i","3","2",")">>

\* def(bar, 2, -1, 1, none)
LineLowerBar ==
    <<"d","e","f","(","b","a","r",","," ","2",","," ","-","1",","," ","1",","," ","n","o","n","e",")">>

\* <space><tab>DEF(a, 1, 0, 0, n)
LineIndented ==
    <<" ","\t","D","E","F","(","a",","," ","1",","," ","0",","," ","0",","," ","n",")">>

\* DEF(a, 1, 0, 0)
LineFourArgs ==
    <<"D","E","F","(","a",","," ","1",","," ","0",","," ","0",")">>

\* DEF(a)
LineOneArg ==
    <<"D","E","F","(","a",")">>

\* DEF(a, 1x, 0, 0, n)
LineBadSuffix ==
    <<"D","E","F","(","a",","," ","1","x",","," ","0",","," ","0",","," ","n",")">>

\* DEF(a, +3, 0, 0, n)
LineBadPlus ==
    <<"D","E","F","(","a",","," ","+","3",","," ","0",","," ","0",","," ","n",")">>

\* DEF(a, 3.5, 0, 0, n)
LineBadFloat ==
    <<"D","E","F","(","a",","," ","3",".","5",","," ","0",","," ","0",","," ","n",")">>

\* DEF(a, 1, 0, 1x, n)
LineBadPush ==
    <<"D","E","F","(","a",","," ","1",","," ","0",","," ","1","x",","," ","n",")">>

\* DEF(a, -1, 0, 0, none)
LineNegSize ==
    <<"D","E","F","(","a",","," ","-","1",","," ","0",","," ","0",","," ","n","o","n","e",")">>

\* DEF(OP_x, 007, -0, -1, n)
LineVerbatim ==
    <<"D","E","F","(","O","P","_","x",","," ","0","0","7",","," ","-","0",","," ","-","1",","," ","n",")">>

\* DEF(a, 1, 0, 0, n
LineNoParen ==
    <<"D","E","F","(","a",","," ","1",","," ","0",","," ","0",","," ","n">>

\* DEF(a, 1, 0, 0, n, 9)
LineSixArgs ==
    <<"D","E","F","(","a",","," ","1",","," ","0",","," ","0",","," ","n",","," ","9",")">>

\* DEF(a, 1, 0, 0, n) DEF(b, 2, 0, 0, m)
LineTwoMacros ==
    <<"D","E","F","(","a",","," ","1",","," ","0",","," ","0",","," ","n",")"," ","D","E","F","(","b",","," ","2",","," ","0",","," ","0",","," ","m",")">>

\* def ( a ,1 ,0 ,0 ,n )<space>
LineSpaced ==
    <<"d","e","f"," ","("," ","a"," ",",","1"," ",",","0"," ",",","0"," ",",","n"," ",")"," ">>

\* Def(a, 1, 0, 0, n)
LineMixedCase ==
    <<"D","e","f","(","a",","," ","1",","," ","0",","," ","0",","," ","n",")">>

\* #define X 1
LineDirective ==
    <<"#","d","e","f","i","n","e"," ","X"," ","1">>

\* DEF(a,1,0,0,n)
LineLong ==
    <<"D","E","F","(","a",",","1",",","0",",","0",",","n",")">>

\* The sample lines a header of the general specification is made of.
Catalogue ==
    {LineEmpty, LineComment, LineScenarioA, LineLowerBar,
     LineIndented, LineFourArgs, LineBadSuffix, LineBadPlus,
     LineBadFloat, LineBadPush, LineNegSize, LineVerbatim,
     LineNoParen, LineSixArgs, LineTwoMacros, LineSpaced,
     LineMixedCase, LineDirective, LineOneArg}

RECURSIVE Join(_)
\* The text whose lines are ls: the lines separated by "\n".
Join(ls) ==
    IF Len(ls) = 0 THEN <<>>
    ELSE IF Len(ls) = 1 THEN ls[1]
    ELSE ls[1] \o <<"\n">> \o Join(Tail(ls))

\* A header as the script meets it: a comment, an opcode, a blank line, an
\* opcode in the lowercase form, and the newline that ends the file.
SampleHeader ==
    Join(<<LineComment, LineScenarioA, LineEmpty, LineLowerBar, LineEmpty>>)

\* Every header of at most MaxLines sample lines, and the sample header.
Inputs ==
    {Join(ls) : ls \in UNION {[1..n -> Catalogue] : n \in 0..MaxLines}}
        \cup {SampleHeader}

\* The lengths of the long opcode tables: around the one-digit and the
\* two-digit limits of the hexadecimal column, and the longest.
LongLens ==
    {0, 15, 16, 17, 255, 256, 257, MaxLong}

\* The text of n opcode lines LineLong separated by "\n".
Table(n) ==
    [i \in 1..(n * (Len(LineLong) + 1) - 1) |->
        IF i % (Len(LineLong) + 1) = 0 THEN "\n"
        ELSE LineLong[i % (Len(LineLong) + 1)]]

\* A table of n opcode lines, alone or followed by a comment line.
LongInputs ==
    {IF n = 0 THEN tail ELSE Table(n) \o <<"\n">> \o tail :
        n \in LongLens, tail \in {<<>>, LineComment}}

\* What the environment does to the script's open() and read().
Avail == {"ok", "noopen", "noread"}

-----------------------------------------------------------------------------
(* The script *)

\* The state before line 4 runs.
Start ==
    /\ avail \in Avail
    /\ pc = "open"
    /\ fopen = FALSE
    /\ err = FALSE
    /\ lines = <<>>
    /\ todo = <<>>
    /\ pos = 0
    /\ idx = 0
    /\ out = <<>>

Init ==
    /\ file \in Inputs
    /\ Start

InitLong ==
    /\ file \in LongInputs
    /\ Start

\* Line 4, open(...) succeeds: the with-block is entered with f open.
OpenOk ==
    /\ pc = "open"
    /\ avail # "noopen"
    /\ fopen' = TRUE
    /\ pc' = "read"
    /\ UNCHANGED <<file, avail, err, lines, todo, pos, idx, out>>

\* Line 4, open(...) raises OSError: nothing catches it, the script ends.
OpenFail ==
    /\ pc = "open"
    /\ avail = "noopen"
    /\ pc' = "failed"
    /\ UNCHANGED <<file, avail, fopen, err, lines, todo, pos, idx, out>>

\* Line 5, f.read() returns the whole text.
ReadOk ==
    /\ pc = "read"
    /\ avail = "ok"
    /\ lines' = file
    /\ pc' = "exit"
    /\ UNCHANGED <<file, avail, fopen, err, todo, pos, idx, out>>

\* A read error that is swallowed: the scan goes on with an empty text.
ReadFailCaught ==
    /\ pc = "read"
    /\ avail = "noread"
    /\ lines' = <<>>
    /\ pc' = "exit"
    /\ UNCHANGED <<file, avail, fopen, err, todo, pos, idx, out>>

\* Line 5, f.read() raises: the exception leaves the with-block.
ReadFail ==
    /\ pc = "read"
    /\ avail = "noread"
    /\ err' = TRUE
    /\ pc' = "exit"
    /\ UNCHANGED <<file, avail, fopen, lines, todo, pos, idx, out>>

\* A with-block that leaves f open.
ExitWithLeak ==
    /\ pc = "exit"
    /\ pc' = IF err THEN "failed" ELSE "scan"
    /\ UNCHANGED <<file, avail, fopen, err, lines, todo, pos, idx, out>>

\* Lines 4-5, the end of the with-block: f is closed, and a pending
\* exception goes on to end the script.
ExitWith ==
    /\ pc = "exit"
    /\ fopen' = FALSE
    /\ pc' = IF err THEN "failed" ELSE "scan"
    /\ UNCHANGED <<file, avail, err, lines, todo, pos, idx, out>>

\* Lines 7-8: idx = 0, and the for-loop takes the list lines.split("\n").
StartScan ==
    /\ pc = "scan"
    /\ idx' = 0
    /\ todo' = Split(lines)
    /\ pos' = 1
    /\ pc' = "loop"
    /\ UNCHANGED <<file, avail, fopen, err, lines, out>>

\* Line 9-10: the match object of the line the loop is at.
CurMatch ==
    ReMatch(Strip(todo[pos]))

\* A counter that advances by two.
IdxStepTwo(i) ==
    i + 2

\* Line 14: idx += 1
IdxStep(i) ==
    i + 1

\* A loop position that skips the line after a matching one.
PosAfterMatchSkip(p) ==
    p + 2

\* The for-loop takes the next element after a matching line.
PosAfterMatch(p) ==
    p + 1

\* Lines 8-14, one iteration on a matching line: print the record, count it.
LoopMatch ==
    /\ pc = "loop"
    /\ pos <= Len(todo)
    /\ CurMatch.ok
    /\ out' = Append(out, FormatRecord(idx, CurMatch.groups))
    /\ idx' = IdxStep(idx)
    /\ pos' = PosAfterMatch(pos)
    /\ UNCHANGED <<file, avail, pc, fopen, err, lines, todo>>

\* Lines 8-11, one iteration on a non-matching line: nothing happens.
LoopSkip ==
    /\ pc = "loop"
    /\ pos <= Len(todo)
    /\ ~CurMatch.ok
    /\ pos' = pos + 1
    /\ UNCHANGED <<file, avail, pc, fopen, err, lines, todo, idx, out>>

\* Line 8, the list is exhausted: the script ends normally.
LoopEnd ==
    /\ pc = "loop"
    /\ pos > Len(todo)
    /\ pc' = "done"
    /\ UNCHANGED <<file, avail, fopen, err, lines, todo, pos, idx, out>>

Next ==
    \/ OpenOk
    \/ OpenFail
    \/ ReadOk
    \/ ReadFail
    \/ ExitWith
    \/ StartScan
    \/ LoopMatch
    \/ LoopSkip
    \/ LoopEnd

\* Every run of the script on a header of the general inputs.
Spec == Init /\ [][Next]_vars

\* The same runs, with the interpreter never stopping halfway: each
\* statement that can run does run.
FairSpec == Init /\ [][Next]_vars /\ WF_vars(Next)

\* Every run of the script on a long opcode table.
LongSpec == InitLong /\ [][Next]_vars

-----------------------------------------------------------------------------
(* Reading a printed record back *)

RECURSIVE Fields(_)
\* The tab-separated fields of a printed record.
Fields(r) ==
    LET k == Find(r, 1, "\t")
    IN  IF k > Len(r)
        THEN <<r>>
        ELSE <<SubSeq(r, 1, k - 1)>> \o Fields(SubSeq(r, k + 1, Len(r)))

\* The value of one digit character, 0..15.
DigitValue(c) ==
    (CHOOSE v \in 1..16 : DigitChars[v] = c) - 1

RECURSIVE ParseNum(_, _)
\* The number the digits s spell in the given base.
ParseNum(s, base) ==
    IF Len(s) = 0 THEN 0
    ELSE ParseNum(SubSeq(s, 1, Len(s) - 1), base) * base + DigitValue(s[Len(s)])

HexChars == Digit \cup {"A","B","C","D","E","F"}

\* s is a non-empty string of characters of class C.
AllIn(s, C) ==
    Len(s) >= 1 /\ \A i \in 1..Len(s) : s[i] \in C

RECURSIVE MatchPositions(_, _)
\* The positions, in order, of the lines among the first n of ls that match.
MatchPositions(ls, n) ==
    IF n = 0 THEN <<>>
    ELSE IF ReMatch(Strip(ls[n])).ok
         THEN Append(MatchPositions(ls, n - 1), n)
         ELSE MatchPositions(ls, n - 1)

\* The scan has begun.
Scanning == pc \in {"loop", "done"}

-----------------------------------------------------------------------------
(* Properties *)

NonConforming ==
    {LineEmpty, LineComment, LineDirective, LineMixedCase,
     LineOneArg, LineFourArgs,
     LineBadSuffix, LineBadPlus, LineBadFloat, LineBadPush}

\* The loop is about to run the body on the line todo[pos].
AtLine == pc = "loop" /\ pos <= Len(todo)

\* C2: processing a line that does not conform to the five-field macro grammar
\* prints nothing, raises nothing and leaves the counter as it is, and the
\* loop goes on to the next line.
C2_SkipNonMatch ==
    [][ (AtLine /\ todo[pos] \in NonConforming)
            => /\ out' = out
               /\ idx' = idx
               /\ err' = err
               /\ pc' = "loop"
               /\ pos' = pos + 1 ]_vars

\* C2 witness: a line with a malformed integer was passed over and the
\* opcode after it was printed with index 0.
C2_Witness ==
    /\ pc = "done"
    /\ todo = <<LineBadSuffix, LineScenarioA>>
    /\ Len(out) = 1
    /\ idx = 1

\* 0<TAB>0x00<TAB>OP_push_i32<TAB>size=5<TAB>pop=0<TAB>push=1<TAB>fmt=i32
RecordScenarioA ==
    <<"0","\t","0","x","0","0","\t","O","P","_","p","u","s","h","_","i","3","2",
      "\t","s","i","z","e","=","5","\t","p","o","p","=","0",
      "\t","p","u","s","h","=","1","\t","f","m","t","=","i","3","2">>

\* C3: a record is the seven tab-separated fields index, hex index, OP_ and
\* the captured name, and size=, pop=, push=, fmt= each followed by the
\* captured text as it stands; the tag is added to a name that already has
\* it, and -0 and 007 stay as written.
C3_FieldFidelity ==
    Scanning =>
        LET mp == MatchPositions(todo, pos - 1)
        IN  \A i \in 1..Len(out) :
                LET src == todo[mp[i]]
                    g   == ReMatch(Strip(src)).groups
                    f   == Fields(out[i])
                IN  /\ Len(f) = 7
                    /\ f[1] = Dec(i - 1)
                    /\ f[2] = <<"0","x">> \o Hex02(i - 1)
                    /\ f[3] = <<"O","P","_">> \o g[1]
                    /\ f[4] = <<"s","i","z","e","=">> \o g[2]
                    /\ f[5] = <<"p","o","p","=">> \o g[3]
                    /\ f[6] = <<"p","u","s","h","=">> \o g[4]
                    /\ f[7] = <<"f","m","t","=">> \o g[5]
                    /\ (src = LineScenarioA /\ i = 1) => out[i] = RecordScenarioA
                    /\ src = LineVerbatim =>
                          /\ f[3] = <<"O","P","_","O","P","_","x">>
                          /\ f[4] = <<"s","i","z","e","=","0","0","7">>
                          /\ f[5] = <<"p","o","p","=","-","0">>
                          /\ f[6] = <<"p","u","s","h","=","-","1">>
                          /\ f[7] = <<"f","m","t","=","n">>

\* C3 witness: the line of scenario A was printed as the first record and the
\* line with the tagged name, 007 and -0 as the second.
C3_Witness ==
    /\ pc = "done"
    /\ todo = <<LineScenarioA, LineVerbatim>>
    /\ Len(out) = 2

\* C4: the second field of a record is its index in uppercase hexadecimal
\* after 0x, two digits wide up to 255 and with all its digits from 256 on;
\* neither the rendering nor the counter wraps at 256.
C4_HexIndex ==
    /\ Scanning => idx = Len(out)
    /\ \A i \in 1..Len(out) :
          LET f == Fields(out[i])
              n == ParseNum(f[1], 10)
              h == SubSeq(f[2], 3, Len(f[2]))
          IN  /\ n = i - 1
              /\ SubSeq(f[2], 1, 2) = <<"0","x">>
              /\ AllIn(h, HexChars)
              /\ ParseNum(h, 16) = n
              /\ n <= 255 => Len(h) = 2
              /\ n >= 256 => Len(h) > 2 /\ h[1] # "0"
              /\ n = 255 => f[2] = <<"0","x","F","F">>
              /\ n = 256 => f[2] = <<"0","x","1","0","0">>

\* C4 witness: a table of more than 256 opcodes was printed to its end.
C4_Witness ==
    /\ pc = "done"
    /\ idx > 256
    /\ Len(out) = idx

\* The line with the other form of the macro token: DEF for def and def for
\* DEF at the start of the line (after its indentation); any other line as
\* it is.
SwapToken(l) ==
    LET b    == Span(l, 1, Space)
        lead == SubSeq(l, 1, b - 1)
        core == SubSeq(l, b, Len(l))
        rest == SubSeq(core, 4, Len(core))
    IN  IF StartsWith(core, T_DEF) THEN lead \o T_def \o rest
        ELSE IF StartsWith(core, T_def) THEN lead \o T_DEF \o rest
        ELSE l

RECURSIVE Records(_, _)
\* The records of the first n lines of ls, numbered by one counter.
Records(ls, n) ==
    IF n = 0 THEN <<>>
    ELSE LET r == Records(ls, n - 1)
             m == ReMatch(Strip(ls[n]))
         IN  IF m.ok THEN Append(r, FormatRecord(Len(r), m.groups)) ELSE r

\* C5: DEF and def are equivalent triggers.  The records printed for the
\* input are the records of the input with the token of every macro line
\* swapped for the other form, numbered by one counter.
C5_TokenCase ==
    Scanning =>
        out = Records([i \in 1..Len(todo) |-> SwapToken(todo[i])], pos - 1)

\* C5 witness: a header with a def line and a DEF line was printed, and
\* swapping the tokens changes both lines.
C5_Witness ==
    /\ pc = "done"
    /\ todo = <<LineLowerBar, LineIndented>>
    /\ Len(out) = 2
    /\ SwapToken(todo[1]) # todo[1]
    /\ SwapToken(todo[2]) # todo[2]

\* The captures of DEF(a, 1, 0, 0, n)
GroupsA == << <<"a">>, <<"1">>, <<"0">>, <<"0">>, <<"n">> >>

\* Texts that may follow the fifth argument: nothing, the closing
\* parenthesis, a sixth argument, a second macro, a comment, stray brackets.
Rests ==
    {<<>>,
     <<")">>,
     <<",", " ", "9", ")">>,
     <<")", " ", "D","E","F","(","b",",","2",",","0",",","0",",","m",")">>,
     <<" ", "/", "/", " ", "x">>,
     <<"(", "(">>}

\* C6: a line matches or not by a prefix of the stripped line.  The token
\* must be the first thing on the stripped line (the comment line does not
\* match, the indented line does); what follows the fifth argument, a missing
\* parenthesis, more arguments or a second macro included, neither prevents
\* the match nor changes the record; a line prints at most one record.
C6_PrefixMatch ==
    [][ AtLine =>
          LET s == Strip(todo[pos])
              m == ReMatch(s)
          IN  /\ out' = out \/ (Len(out') = Len(out) + 1 /\ SubSeq(out', 1, Len(out)) = out)
              /\ out' # out => StartsWith(s, T_DEF) \/ StartsWith(s, T_def)
              /\ todo[pos] = LineComment => out' = out
              /\ todo[pos] \in {LineIndented, LineNoParen, LineSixArgs, LineTwoMacros}
                    => out' = Append(out, FormatRecord(idx, GroupsA))
              /\ out' # out =>
                    \A r \in Rests :
                        LET v == ReMatch(Strip(SubSeq(s, 1, m.end) \o r))
                        IN  v.ok /\ out' = Append(out, FormatRecord(idx, v.groups)) ]_vars

\* C6 witness: after the comment line, the line with two macros printed one
\* record.
C6_Witness ==
    /\ pc = "done"
    /\ todo = <<LineComment, LineTwoMacros>>
    /\ Len(out) = 1

\* C7: when the input cannot be opened or read the run ends failed, the
\* error is not caught (the scan is never reached) nor retried, and nothing
\* was printed; a readable input never ends failed, whatever its lines are.
C7_InputFailure ==
    /\ (avail # "ok") ~> (pc = "failed")
    /\ [](avail # "ok" => out = <<>> /\ pc \in {"open", "read", "exit", "failed"})
    /\ [](pc = "failed" => avail # "ok" /\ out = <<>>)
    /\ [](avail = "ok" => ~err /\ pc # "failed")
    /\ [][pc = "failed" => pc' = "failed"]_vars

\* C7 witness: the sample header could not be read; the run ended failed
\* with nothing printed.
C7_Witness ==
    /\ pc = "failed"
    /\ avail = "noread"
    /\ file = SampleHeader
    /\ out = <<>>

\* C8: on a readable input the run ends normally, after the loop body ran on
\* every line of the input once, in order; on the empty input it ends
\* normally with nothing printed.
C8_Termination ==
    /\ (avail = "ok") ~> (pc = "done")
    /\ [](pc = "done" => /\ avail = "ok"
                         /\ ~err
                         /\ todo = Split(file)
                         /\ pos = Len(todo) + 1)
    /\ [](pc = "done" /\ file = <<>> => out = <<>>)
    /\ [][AtLine => pos' = pos + 1 /\ todo' = todo /\ pc' = "loop"]_vars
    /\ [][pc = "loop" /\ pc' = "done" => pos > Len(todo)]_vars
    /\ [][pc = "done" => pc' = "done"]_vars

\* C8 witness: the run on the sample header ended normally with all five
\* of its lines passed.
C8_Witness ==
    /\ pc = "done"
    /\ file = SampleHeader
    /\ Len(todo) = 5
    /\ pos = 6

\* C9: the input is read whole and closed before the scan begins: nothing is
\* printed while the file is open or the text not yet read, the file is
\* closed however the run ends, and no failure follows a printed record.
C9_ReadBeforeScan ==
    /\ fopen => out = <<>> /\ pc \in {"read", "exit"}
    /\ pc \in {"scan", "loop", "done"} => ~fopen /\ lines = file /\ ~err
    /\ pc \in {"done", "failed"} => ~fopen
    /\ out # <<>> => pc \in {"loop", "done"} /\ ~err

\* C9 witness: in the middle of the scan a record is printed, the whole text
\* is in memory and the file is closed.
C9_Witness ==
    /\ AtLine
    /\ Len(out) = 1
    /\ ~fopen
    /\ lines = file
    /\ Len(file) > 0

\* C10 as claimed: the line DEF(a, -1, 0, 0, none) is accepted and printed
\* with size=-1.
C10_NegativeSizeAccepted ==
    (pc = "done" /\ todo = <<LineNegSize>>)
        => /\ Len(out) = 1
           /\ Fields(out[1])[4] = <<"s","i","z","e","=","-","1">>

\* C10 as amended: the size field of a record is never negative, it is a
\* string of decimal digits; a line whose second argument carries a minus
\* sign is not accepted and prints nothing, while the pop and push fields
\* may carry one.
C10_SizeUnsigned ==
    /\ \A i \in 1..Len(out) :
          LET f == Fields(out[i])
          IN  /\ AllIn(SubSeq(f[4], 6, Len(f[4])), Digit)
              /\ AllIn(SubSeq(f[5], 5, Len(f[5])), Digit \cup {"-"})
              /\ AllIn(SubSeq(f[6], 6, Len(f[6])), Digit \cup {"-"})
    /\ Scanning =>
          \A j \in 1..(pos - 1) :
              todo[j] = LineNegSize =>
                  Records(todo, j) = Records(todo, j - 1)
    /\ Scanning => out = Records(todo, pos - 1)

\* C10 witness: the line with size -1 printed nothing, and the line after
\* it was printed with index 0 and pop=-1.
C10_Witness ==
    /\ pc = "done"
    /\ todo = <<LineNegSize, LineLowerBar>>
    /\ Len(out) = 1
    /\ Fields(out[1])[1] = <<"0">>
    /\ Fields(out[1])[5] = <<"p","o","p","=","-","1">>

====
